---- MODULE Spec2Model ----
(***************************************************************************)
(* State-machine model of the term dictionary server (src/server.js).      *)
(*                                                                         *)
(* The catalog is the object literal programmingTermsDatabase and the      *)
(* array allTerms derived from it; the operations are the Express route    *)
(* handlers.  Each handler is synchronous, so one action is one whole      *)
(* handler run: it reads the request, and writes the response.             *)
(*                                                                         *)
(* Strings are TLA+ strings.  The source's CJK text cannot be written in   *)
(* a TLA+ string, so every run of non-ASCII characters of a label or of a  *)
(* description is written as one "~"; the ASCII parts are kept as they     *)
(* are in the source.  The model's catalog is a sample of the source's     *)
(* catalog: seven of the 28 categories in their declaration order, with    *)
(* terms listed below taken field by field from the source.                *)
(***************************************************************************)
EXTENDS Integers, Sequences, FiniteSets, TLC

(***************************************************************************)
(* Bounds of the request parameters that are enumerated.                   *)
(***************************************************************************)
MaxLimit == 1
MaxOffset == 2
MaxCount == 8

(***************************************************************************)
(* JavaScript values                                                       *)
(***************************************************************************)
\* a query parameter that the request does not carry
undefined == "<undefined>"

\* truthiness of a query-string value: undefined and '' are falsy
Truthy(v) == v # undefined /\ v # ""

\* a JavaScript number that is an integer or NaN
Num(n) == [nan |-> FALSE, val |-> n]
NaN == [nan |-> TRUE, val |-> 0]

\* a + b on numbers: NaN if either operand is NaN
Plus(a, b) == IF a.nan \/ b.nan THEN NaN ELSE Num(a.val + b.val)

\* a < b on numbers: false if either operand is NaN
LessThan(a, b) == ~a.nan /\ ~b.nan /\ a.val < b.val

Min(a, b) == IF a < b THEN a ELSE b
Max(a, b) == IF a > b THEN a ELSE b

(***************************************************************************)
(* String.prototype.toLowerCase and String.prototype.includes              *)
(***************************************************************************)
upperToLower ==
    "A" :> "a" @@ "B" :> "b" @@ "C" :> "c" @@ "D" :> "d" @@ "E" :> "e" @@
    "F" :> "f" @@ "G" :> "g" @@ "H" :> "h" @@ "I" :> "i" @@ "J" :> "j" @@
    "K" :> "k" @@ "L" :> "l" @@ "M" :> "m" @@ "N" :> "n" @@ "O" :> "o" @@
    "P" :> "p" @@ "Q" :> "q" @@ "R" :> "r" @@ "S" :> "s" @@ "T" :> "t" @@
    "U" :> "u" @@ "V" :> "v" @@ "W" :> "w" @@ "X" :> "x" @@ "Y" :> "y" @@
    "Z" :> "z"

LowerChar(c) == IF c \in DOMAIN upperToLower THEN upperToLower[c] ELSE c

RECURSIVE toLowerCase(_)
toLowerCase(s) ==
    IF Len(s) = 0 THEN ""
    ELSE LowerChar(SubSeq(s, 1, 1)) \o toLowerCase(SubSeq(s, 2, Len(s)))

\* s.includes(p): p occurs in s as a contiguous substring
includes(s, p) ==
    \E i \in 1..(Len(s) - Len(p) + 1) : SubSeq(s, i, i + Len(p) - 1) = p

(***************************************************************************)
(* parseInt(string): leading white space is skipped, then an optional      *)
(* sign, then the longest run of decimal digits; NaN if there is no digit. *)
(***************************************************************************)
digitValue ==
    "0" :> 0 @@ "1" :> 1 @@ "2" :> 2 @@ "3" :> 3 @@ "4" :> 4 @@
    "5" :> 5 @@ "6" :> 6 @@ "7" :> 7 @@ "8" :> 8 @@ "9" :> 9

RECURSIVE SkipWhiteSpace(_)
SkipWhiteSpace(s) ==
    IF Len(s) > 0 /\ SubSeq(s, 1, 1) = " "
    THEN SkipWhiteSpace(SubSeq(s, 2, Len(s)))
    ELSE s

RECURSIVE ParseDigits(_, _, _)
ParseDigits(s, acc, seen) ==
    IF Len(s) > 0 /\ SubSeq(s, 1, 1) \in DOMAIN digitValue
    THEN ParseDigits(SubSeq(s, 2, Len(s)),
                     10 * acc + digitValue[SubSeq(s, 1, 1)], TRUE)
    ELSE IF seen THEN Num(acc) ELSE NaN

parseInt(s) ==
    LET t == SkipWhiteSpace(s)
        neg == Len(t) > 0 /\ SubSeq(t, 1, 1) = "-"
        signed == Len(t) > 0 /\ SubSeq(t, 1, 1) \in {"-", "+"}
        m == ParseDigits(IF signed THEN SubSeq(t, 2, Len(t)) ELSE t, 0, FALSE)
    IN  IF m.nan THEN NaN ELSE IF neg THEN Num(0 - m.val) ELSE m

(***************************************************************************)
(* Array.prototype.slice(start, end) with number arguments                 *)
(***************************************************************************)
\* ToIntegerOrInfinity followed by the clamping of a relative index
RelativeIndex(n, len) ==
    IF n.nan THEN 0
    ELSE IF n.val < 0 THEN Max(len + n.val, 0) ELSE Min(n.val, len)

slice(arr, start, end) ==
    LET k == RelativeIndex(start, Len(arr))
        final == RelativeIndex(end, Len(arr))
    IN  SubSeq(arr, k + 1, final)

(***************************************************************************)
(* The catalog literal                                                     *)
(***************************************************************************)
Term(id, name, chinese, description, difficulty, tags, example, useCases, relatedTerms) ==
    [id |-> id, name |-> name, chinese |-> chinese,
     description |-> description, difficulty |-> difficulty, tags |-> tags,
     example |-> example, useCases |-> useCases,
     relatedTerms |-> relatedTerms]

javascript == <<
    Term("js_1", "closure", "~", "~", "intermediate",
         <<"scope", "functions", "memory">>,
         "function createCounter() {", <<"~", "~", "~", "~">>,
         <<"scope", "hoisting", "execution context">>),
    Term("js_2", "hoisting", "~", "JavaScript~", "intermediate",
         <<"variables", "functions", "execution">>,
         "console.log(x); // undefined (~!)", <<"~", "~", "~">>,
         <<"scope", "var", "let", "const">>) >>

react == <<
    Term("react_1", "jsx", "JavaScript XML", "React~JavaScript~HTML~",
         "beginner", <<"syntax", "components", "rendering">>,
         "const Welcome = ({ name, age }) => {", <<"~", "~", "~", "~">>,
         <<"components", "props", "virtual dom">>) >>

nodejs == <<
    Term("node_8", "environment_variables", "~", "~", "beginner",
         <<"configuration", "environment", "security">>,
         "// 1. ~", <<"~", "~", "~", "~">>,
         <<"dotenv", "configuration", "security", "deployment">>) >>

algorithms == <<
    Term("algo_3", "hash_table", "~", "~O(1)~", "intermediate",
         <<"data-structure", "hashing", "performance">>,
         "class HashTable {", <<"~", "~", "~", "~">>,
         <<"hash function", "collision", "load factor", "dictionary">>),
    Term("algo_4", "binary_tree", "~", "~", "intermediate",
         <<"data-structure", "tree", "recursion">>,
         "// ~", <<"~", "~", "~", "~">>,
         <<"recursion", "traversal", "binary search", "tree algorithms">>) >>

datascience == <<
    Term("ds_1", "machine_learning", "~", "~", "advanced",
         <<"ai", "ml", "algorithms">>,
         "# Python~", <<"~", "~", "~", "~">>,
         <<"supervised learning", "unsupervised learning",
           "neural networks", "feature engineering">>),
    Term("ds_2", "data_visualization", "~", "~", "intermediate",
         <<"visualization", "charts", "analysis">>,
         "import matplotlib.pyplot as plt", <<"~", "~", "~", "~">>,
         <<"matplotlib", "seaborn", "plotly", "dashboard">>) >>

fundamentals == <<
    Term("fund_8", "scope", "~", "~", "intermediate",
         <<"scope", "variables", "functions">>,
         "// JavaScript~", <<"~", "~", "~", "~">>,
         <<"closure", "hoisting", "lexical scope", "namespace">>) >>

datastructures == <<
    Term("ds_1", "array", "~", "~", "beginner",
         <<"data-structure", "collection", "indexed">>,
         "// JavaScript~", <<"~", "~", "~", "~">>,
         <<"list", "index", "iteration", "collection">>),
    Term("ds_2", "linked_list", "~", "~", "intermediate",
         <<"data-structure", "pointers", "dynamic">>,
         "// JavaScript~", <<"~", "~", "~", "~">>,
         <<"array", "pointer", "node", "traversal">>),
    Term("ds_3", "hash_table", "~", "~", "intermediate",
         <<"data-structure", "hashing", "key-value">>,
         "// JavaScript~", <<"~", "~", "~", "~">>,
         <<"hash function", "collision", "bucket", "load factor">>),
    Term("ds_4", "stack", "~", "~(LIFO)~", "beginner",
         <<"data-structure", "lifo", "linear">>,
         "// JavaScript~", <<"~", "~", "~", "~">>,
         <<"lifo", "push", "pop", "call stack">>),
    Term("ds_5", "queue", "~", "~(FIFO)~", "beginner",
         <<"data-structure", "fifo", "linear">>,
         "// JavaScript~", <<"~", "~", "~", "~">>,
         <<"fifo", "enqueue", "dequeue", "priority queue">>) >>

\* the object literal: its own properties in insertion order
DatabaseLiteral == <<
    [key |-> "javascript", value |-> javascript],
    [key |-> "react", value |-> react],
    [key |-> "nodejs", value |-> nodejs],
    [key |-> "algorithms", value |-> algorithms],
    [key |-> "datascience", value |-> datascience],
    [key |-> "fundamentals", value |-> fundamentals],
    [key |-> "datastructures", value |-> datastructures] >>

(***************************************************************************)
(* Object operations on the catalog                                        *)
(***************************************************************************)
\* the property names every plain object inherits from Object.prototype
ObjectPrototypeKeys ==
    {"constructor", "toString", "toLocaleString", "valueOf",
     "hasOwnProperty", "isPrototypeOf", "propertyIsEnumerable", "__proto__",
     "__defineGetter__", "__defineSetter__", "__lookupGetter__",
     "__lookupSetter__"}

\* Object.keys(db)
ObjectKeys(db) == [i \in 1..Len(db) |-> db[i].key]

\* Object.values(db)
ObjectValues(db) == [i \in 1..Len(db) |-> db[i].value]

\* variant: the arrays are joined last one first
RECURSIVE Flat_reversed(_)
Flat_reversed(arrs) ==
    IF arrs = <<>> THEN <<>> ELSE Flat_reversed(Tail(arrs)) \o Head(arrs)

\* Array.prototype.flat() of an array of arrays
RECURSIVE Flat(_)
Flat(arrs) == IF arrs = <<>> THEN <<>> ELSE Head(arrs) \o Flat(Tail(arrs))

HasOwn(db, k) == \E i \in 1..Len(db) : db[i].key = k

\* the term literal declares the property f; reading a property it does not
\* declare gives undefined, and calling a method of undefined is a TypeError
HasField(term, f) == f \in DOMAIN term

\* db[k]: an own property's array, an inherited non-array value, or undefined
GetProperty(db, k) ==
    IF HasOwn(db, k)
    THEN [kind |-> "array",
          value |-> db[CHOOSE i \in 1..Len(db) : db[i].key = k].value]
    ELSE IF k \in ObjectPrototypeKeys
    THEN [kind |-> "inherited", value |-> <<>>]
    ELSE [kind |-> "undefined", value |-> <<>>]


(***************************************************************************)
(* State                                                                   *)
(***************************************************************************)
VARIABLES
    programmingTermsDatabase,  \* the category map
    allTerms,                  \* the flat array built from it at startup
    req,                       \* the request being answered
    res,                       \* the response written for it
    filteredTerms,             \* GET /api/terms: the handler's local when
                               \* the response is written
    listening                  \* app.listen has been called

vars ==
    <<programmingTermsDatabase, allTerms, req, res, filteredTerms, listening>>

\* no request is being handled
NoRequest ==
    [route |-> "",
     query |-> [category |-> undefined, difficulty |-> undefined,
                search |-> undefined, limit |-> undefined,
                offset |-> undefined, count |-> undefined],
     params |-> [id |-> undefined]]

NoResponse == [status |-> 0, body |-> [error |-> ""]]

Init ==
    /\ programmingTermsDatabase = DatabaseLiteral
    /\ allTerms = Flat(ObjectValues(DatabaseLiteral))
    /\ req = NoRequest
    /\ res = NoResponse
    /\ filteredTerms = <<>>
    /\ listening = TRUE

(***************************************************************************)
(* GET /api/terms                                                          *)
(***************************************************************************)
\* variant: the category's terms are not assigned to the working set
CategoryFilter_ignored(db, all, category) == [kind |-> "array", value |-> all]

\* the category filter: the working set after it, or a non-array value
CategoryFilter(db, all, category) ==
    IF Truthy(category) /\ category # "all"
    THEN LET p == GetProperty(db, category)
         IN  IF p.kind = "undefined"
             THEN [kind |-> "array", value |-> <<>>]
             ELSE p
    ELSE [kind |-> "array", value |-> all]

\* the difficulty filter
DifficultyFilter(terms, difficulty) ==
    IF Truthy(difficulty) /\ difficulty # "all"
    THEN LET Keep(term) == term.difficulty = difficulty
         IN  SelectSeq(terms, Keep)
    ELSE terms

\* variant: the Chinese label is matched case-insensitively too
SearchMatches_lowerChinese(term, search) ==
    LET searchLower == toLowerCase(search)
    IN  \/ includes(toLowerCase(term.name), searchLower)
        \/ includes(toLowerCase(term.chinese), searchLower)
        \/ includes(toLowerCase(term.description), searchLower)
        \/ \E i \in 1..Len(term.tags) :
               includes(toLowerCase(term.tags[i]), searchLower)

\* variant: the text has to be the whole name, label, description or tag
SearchMatches_wholeField(term, search) ==
    LET searchLower == toLowerCase(search)
    IN  \/ toLowerCase(term.name) = searchLower
        \/ term.chinese = search
        \/ toLowerCase(term.description) = searchLower
        \/ \E i \in 1..Len(term.tags) :
               toLowerCase(term.tags[i]) = searchLower

\* the predicate of the search filter
SearchMatches(term, search) ==
    LET searchLower == toLowerCase(search)
    IN  \/ includes(toLowerCase(term.name), searchLower)
        \/ includes(term.chinese, search)
        \/ includes(toLowerCase(term.description), searchLower)
        \/ \E i \in 1..Len(term.tags) :
               includes(toLowerCase(term.tags[i]), searchLower)

\* the predicate raises a TypeError: its operands are evaluated from left
\* to right up to the first one that is true, and each calls a method of a
\* property of the term
SearchThrows(term, search) ==
    LET searchLower == toLowerCase(search)
    IN  IF ~HasField(term, "name") THEN TRUE
        ELSE IF includes(toLowerCase(term.name), searchLower) THEN FALSE
        ELSE IF ~HasField(term, "chinese") THEN TRUE
        ELSE IF includes(term.chinese, search) THEN FALSE
        ELSE IF ~HasField(term, "description") THEN TRUE
        ELSE IF includes(toLowerCase(term.description), searchLower)
        THEN FALSE
        ELSE ~HasField(term, "tags")

\* the search filter raises a TypeError on some term of the working set
SearchFilterThrows(terms, search) ==
    /\ Truthy(search)
    /\ \E i \in 1..Len(terms) : SearchThrows(terms[i], search)

\* variant: the search text does not narrow the working set
SearchFilter_ignored(terms, search) == terms

\* variant: the search text is trimmed before it is matched
SearchFilter_trimmed(terms, search) ==
    IF Truthy(search)
    THEN LET Strip(s) ==
                 LET t == SkipWhiteSpace(s)
                 IN  IF Len(t) > 0 /\ SubSeq(t, Len(t), Len(t)) = " "
                     THEN SubSeq(t, 1, Len(t) - 1) ELSE t
             Keep(term) == SearchMatches(term, Strip(search))
         IN  SelectSeq(terms, Keep)
    ELSE terms

\* the search filter
SearchFilter(terms, search) ==
    IF Truthy(search)
    THEN LET Keep(term) == SearchMatches(term, search)
         IN  SelectSeq(terms, Keep)
    ELSE terms

\* the destructuring defaults of limit and offset, as parseInt reads them
LimitArg(limit) == IF limit = undefined THEN "50" ELSE limit
OffsetArg(offset) == IF offset = undefined THEN "0" ELSE offset

\* variant: the page is returned last term first
Paginate_reversed(db, terms, limit, offset) ==
    LET startIndex == parseInt(OffsetArg(offset))
        endIndex == Plus(startIndex, parseInt(LimitArg(limit)))
        page == slice(terms, startIndex, endIndex)
    IN  [terms |-> [i \in 1..Len(page) |-> page[Len(page) + 1 - i]],
         total |-> Len(terms),
         hasMore |-> LessThan(endIndex, Num(Len(terms))),
         categories |-> ObjectKeys(db),
         difficulties |-> <<"beginner", "intermediate", "advanced">>]

\* variant: total is the length of the page
Paginate_totalOfPage(db, terms, limit, offset) ==
    LET startIndex == parseInt(OffsetArg(offset))
        endIndex == Plus(startIndex, parseInt(LimitArg(limit)))
    IN  [terms |-> slice(terms, startIndex, endIndex),
         total |-> Len(slice(terms, startIndex, endIndex)),
         hasMore |-> LessThan(endIndex, Num(Len(terms))),
         categories |-> ObjectKeys(db),
         difficulties |-> <<"beginner", "intermediate", "advanced">>]

\* variant: the page includes the term at endIndex
Paginate_inclusiveEnd(db, terms, limit, offset) ==
    LET startIndex == parseInt(OffsetArg(offset))
        endIndex == Plus(startIndex, parseInt(LimitArg(limit)))
    IN  [terms |-> slice(terms, startIndex, Plus(endIndex, Num(1))),
         total |-> Len(terms),
         hasMore |-> LessThan(endIndex, Num(Len(terms))),
         categories |-> ObjectKeys(db),
         difficulties |-> <<"beginner", "intermediate", "advanced">>]

\* the response body of a page
Paginate(db, terms, limit, offset) ==
    LET startIndex == parseInt(OffsetArg(offset))
        endIndex == Plus(startIndex, parseInt(LimitArg(limit)))
    IN  [terms |-> slice(terms, startIndex, endIndex),
         total |-> Len(terms),
         hasMore |-> LessThan(endIndex, Num(Len(terms))),
         categories |-> ObjectKeys(db),
         difficulties |-> <<"beginner", "intermediate", "advanced">>]

\* the global error handler's response to an exception of a route handler
InternalServerError ==
    [status |-> 500, body |-> [error |-> "Internal server error"]]

\* the handler: filteredTerms.filter and filteredTerms.slice throw a
\* TypeError when filteredTerms is not an array, and so does the search
\* predicate on a term without the property it reads
TermsHandler(db, all, query) ==
    LET working == CategoryFilter(db, all, query.category)
        ofDifficulty == DifficultyFilter(working.value, query.difficulty)
        filtered == SearchFilter(ofDifficulty, query.search)
    IN  IF \/ working.kind # "array"
           \/ SearchFilterThrows(ofDifficulty, query.search)
        THEN [res |-> InternalServerError, filteredTerms |-> <<>>]
        ELSE [res |-> [status |-> 200,
                       body |-> Paginate(db, filtered, query.limit,
                                         query.offset)],
              filteredTerms |-> filtered]

CategoryParams ==
    {undefined, "", "all", "javascript", "datascience", "datastructures",
     "nosuch", "constructor", "__proto__"}
DifficultyParams ==
    {undefined, "all", "beginner", "intermediate", "advanced", "Beginner"}
SearchParams ==
    {undefined, "", "scope", " scope", "XML", " XML", "xml", "HASH"}
LimitParams == {undefined, "abc"} \cup {ToString(i) : i \in -1..MaxLimit}
OffsetParams == {undefined, "abc"} \cup {ToString(i) : i \in -1..MaxOffset}

\* one run of the handler for a query drawn from the given parameter sets
ListRequest(categories, difficulties, searches, limits, offsets) ==
    /\ listening
    /\ req = NoRequest
    /\ \E category \in categories, difficulty \in difficulties,
          search \in searches, limit \in limits, offset \in offsets :
          LET query == [category |-> category, difficulty |-> difficulty,
                        search |-> search, limit |-> limit,
                        offset |-> offset, count |-> undefined]
              out == TermsHandler(programmingTermsDatabase, allTerms, query)
          IN  /\ req' = [route |-> "/api/terms", query |-> query,
                         params |-> NoRequest.params]
              /\ res' = out.res
              /\ filteredTerms' = out.filteredTerms
    /\ UNCHANGED <<programmingTermsDatabase, allTerms, listening>>

GetTerms ==
    ListRequest(CategoryParams, DifficultyParams, SearchParams, LimitParams,
                OffsetParams)

(***************************************************************************)
(* GET /api/terms/:id                                                      *)
(***************************************************************************)
\* variant: ids are compared without regard to letter case
FindIndex_caseInsensitive(all, id) ==
    IF \E i \in 1..Len(all) : toLowerCase(all[i].id) = toLowerCase(id)
    THEN CHOOSE i \in 1..Len(all) :
             /\ toLowerCase(all[i].id) = toLowerCase(id)
             /\ \A j \in 1..(i - 1) :
                    toLowerCase(all[j].id) # toLowerCase(id)
    ELSE 0

\* allTerms.find(t => t.id === id): the index of the first match, 0 if none
FindIndex(all, id) ==
    IF \E i \in 1..Len(all) : all[i].id = id
    THEN CHOOSE i \in 1..Len(all) :
             /\ all[i].id = id
             /\ \A j \in 1..(i - 1) : all[j].id # id
    ELSE 0

\* array.includes(x)
ArrayIncludes(arr, x) == \E i \in 1..Len(arr) : arr[i] = x

\* the predicate of the related-terms filter; term.relatedTerms?.some is
\* undefined, hence falsy, for a term without relatedTerms
IsRelated(t, term) ==
    /\ t.id # term.id
    /\ \/ \E i \in 1..Len(t.tags) : ArrayIncludes(term.tags, t.tags[i])
       \/ /\ HasField(term, "relatedTerms")
          /\ \E i \in 1..Len(term.relatedTerms) :
                 includes(t.name, term.relatedTerms[i])

\* the predicate raises a TypeError: t.tags.some(...) on a candidate
\* without tags, term.tags.includes(...) on a source without tags, and
\* t.name.includes(...) on a candidate without a name
IsRelatedThrows(t, term) ==
    IF t.id = term.id THEN FALSE
    ELSE IF ~HasField(t, "tags") THEN TRUE
    ELSE IF Len(t.tags) > 0 /\ ~HasField(term, "tags") THEN TRUE
    ELSE IF \E i \in 1..Len(t.tags) : ArrayIncludes(term.tags, t.tags[i])
    THEN FALSE
    ELSE /\ HasField(term, "relatedTerms")
         /\ Len(term.relatedTerms) > 0
         /\ ~HasField(t, "name")

\* the related-terms filter raises a TypeError on some term of allTerms
RelatedTermsThrows(all, term) ==
    \E i \in 1..Len(all) : IsRelatedThrows(all[i], term)

\* variant: the list of related terms is not cut
RelatedTerms_unsliced(all, term) ==
    LET Keep(t) == IsRelated(t, term)
    IN  SelectSeq(all, Keep)

\* variant: the terms that share a tag come before the terms found by name
RelatedTerms_tagsFirst(all, term) ==
    LET ByTag(t) ==
            /\ IsRelated(t, term)
            /\ \E i \in 1..Len(t.tags) : ArrayIncludes(term.tags, t.tags[i])
        ByNameOnly(t) == IsRelated(t, term) /\ ~ByTag(t)
    IN  slice(SelectSeq(all, ByTag) \o SelectSeq(all, ByNameOnly),
              Num(0), Num(5))

\* the related terms of a found term, before the projection
RelatedTerms(all, term) ==
    LET Keep(t) == IsRelated(t, term)
    IN  slice(SelectSeq(all, Keep), Num(0), Num(5))

\* the projection of a related term
Projection(t) == [id |-> t.id, name |-> t.name, chinese |-> t.chinese]

TermNotFound == [status |-> 404, body |-> [error |-> "Term not found"]]

\* the handler
TermHandler(all, id) ==
    LET i == FindIndex(all, id)
    IN  IF i = 0
        THEN TermNotFound
        ELSE IF RelatedTermsThrows(all, all[i])
        THEN InternalServerError
        ELSE LET related == RelatedTerms(all, all[i])
             IN  [status |-> 200,
                  body |-> [all[i] EXCEPT !.relatedTerms =
                               [k \in 1..Len(related) |->
                                   Projection(related[k])]]]

IdParams ==
    {allTerms[i].id : i \in 1..Len(allTerms)}
        \cup {"JS_1", "js", "js_10", "ds_", "nosuch"}

GetTerm ==
    /\ listening
    /\ req = NoRequest
    /\ \E id \in IdParams :
          /\ req' = [route |-> "/api/terms/:id", query |-> NoRequest.query,
                     params |-> [id |-> id]]
          /\ res' = TermHandler(allTerms, id)
    /\ filteredTerms' = <<>>
    /\ UNCHANGED <<programmingTermsDatabase, allTerms, listening>>

(***************************************************************************)
(* GET /api/categories                                                     *)
(***************************************************************************)
\* the id -> display name table of the handler
displayNames ==
    "javascript" :> "JavaScript~" @@ "react" :> "React~" @@
    "nodejs" :> "Node.js~" @@ "database" :> "~" @@ "css" :> "CSS~" @@
    "algorithms" :> "~" @@ "security" :> "Web~" @@ "emerging" :> "~" @@
    "devtools" :> "~" @@ "testing" :> "~" @@
    "typescript" :> "TypeScript" @@ "performance" :> "~" @@
    "python" :> "Python~" @@ "mobile" :> "~" @@ "cloud" :> "~" @@
    "devops" :> "DevOps~" @@ "datascience" :> "~" @@ "java" :> "Java~" @@
    "blockchain" :> "~" @@ "gamedev" :> "~" @@ "cybersecurity" :> "~" @@
    "fundamentals" :> "~" @@ "datastructures" :> "~" @@
    "softwareengineering" :> "~" @@ "networking" :> "~" @@
    "operatingsystems" :> "~" @@ "compilers" :> "~" @@ "html" :> "HTML~"

\* variant: the table is not consulted
DisplayName_raw(key) == key

\* table[key] || key
DisplayName(key) ==
    IF key \in DOMAIN displayNames THEN displayNames[key] ELSE key

\* the handler
CategoriesHandler(db) ==
    [status |-> 200,
     body |-> [i \in 1..Len(db) |->
                  [id |-> db[i].key, name |-> db[i].key,
                   count |-> Len(db[i].value),
                   displayName |-> DisplayName(db[i].key)]]]

GetCategories ==
    /\ listening
    /\ req = NoRequest
    /\ req' = [NoRequest EXCEPT !.route = "/api/categories"]
    /\ res' = CategoriesHandler(programmingTermsDatabase)
    /\ filteredTerms' = <<>>
    /\ UNCHANGED <<programmingTermsDatabase, allTerms, listening>>

(***************************************************************************)
(* GET /api/stats                                                          *)
(***************************************************************************)
\* allTerms.filter(t => t.difficulty === d).length
CountDifficulty(all, d) ==
    LET Keep(t) == t.difficulty = d
    IN  Len(SelectSeq(all, Keep))

\* variant: the advanced bucket counts every term that is not a beginner's
ByDifficulty_overlap(all) ==
    LET Keep(t) == t.difficulty # "beginner"
    IN  [beginner |-> CountDifficulty(all, "beginner"),
         intermediate |-> CountDifficulty(all, "intermediate"),
         advanced |-> Len(SelectSeq(all, Keep))]

\* the three buckets of byDifficulty
ByDifficulty(all) ==
    [beginner |-> CountDifficulty(all, "beginner"),
     intermediate |-> CountDifficulty(all, "intermediate"),
     advanced |-> CountDifficulty(all, "advanced")]

\* variant: the accumulator carries a running count over the categories
ByCategory_runningTotal(db) ==
    [i \in 1..Len(db) |->
        [key |-> db[i].key,
         value |-> Len(Flat([k \in 1..i |-> db[k].value]))]]

\* the reduce over Object.keys(db): one property per category, in key order
ByCategory(db) ==
    [i \in 1..Len(db) |-> [key |-> db[i].key, value |-> Len(db[i].value)]]

\* variant: totalTerms counts the distinct ids
StatsHandler_distinctIds(db, all, now) ==
    [status |-> 200,
     body |-> [totalTerms |-> Cardinality({all[i].id : i \in 1..Len(all)}),
               categories |-> Len(ObjectKeys(db)),
               byDifficulty |-> ByDifficulty(all),
               byCategory |-> ByCategory(db),
               lastUpdated |-> now]]

\* the handler; now is new Date().toISOString() at the call
StatsHandler(db, all, now) ==
    [status |-> 200,
     body |-> [totalTerms |-> Len(all),
               categories |-> Len(ObjectKeys(db)),
               byDifficulty |-> ByDifficulty(all),
               byCategory |-> ByCategory(db),
               lastUpdated |-> now]]

\* the wall-clock readings a call can see
Timestamps == {"2026-01-01T00:00:00.000Z", "2026-01-01T00:00:01.000Z"}

GetStats ==
    /\ listening
    /\ req = NoRequest
    /\ \E now \in Timestamps :
          res' = StatsHandler(programmingTermsDatabase, allTerms, now)
    /\ req' = [NoRequest EXCEPT !.route = "/api/stats"]
    /\ filteredTerms' = <<>>
    /\ UNCHANGED <<programmingTermsDatabase, allTerms, listening>>

(***************************************************************************)
(* GET /api/random                                                         *)
(***************************************************************************)
\* Array.prototype.sort with the comparator () => 0.5 - Math.random(): the
\* comparator is not consistent, so the order is whatever the comparisons
\* happen to produce; sort only moves the elements of the array, so the
\* outcomes are the arrangements of its n positions
SortOutcomes(n) == Permutations(1..n)

\* the destructuring default of count, as parseInt reads it
CountArg(count) == IF count = undefined THEN "1" ELSE count

\* variant: allTerms itself is sorted
RandomHandler_inPlace(all, count, order) ==
    LET shuffled == [i \in 1..Len(all) |-> all[order[i]]]
    IN  [res |-> [status |-> 200,
                  body |-> slice(shuffled, Num(0), parseInt(CountArg(count)))],
         allTerms |-> shuffled]

\* variant: a faulty exchange copies the first element over the second
RandomHandler_repeatsFirst(all, count, order) ==
    LET shuffled == [i \in 1..Len(all) |->
                        all[IF i = 2 THEN order[1] ELSE order[i]]]
    IN  [res |-> [status |-> 200,
                  body |-> slice(shuffled, Num(0), parseInt(CountArg(count)))],
         allTerms |-> all]

\* variant: the slice starts at index 1
RandomHandler_offByOne(all, count, order) ==
    LET shuffled == [i \in 1..Len(all) |-> all[order[i]]]
    IN  [res |-> [status |-> 200,
                  body |-> slice(shuffled, Num(1), parseInt(CountArg(count)))],
         allTerms |-> all]

\* the handler: the response, and allTerms after it (a copy is sorted)
RandomHandler(all, count, order) ==
    LET shuffled == [i \in 1..Len(all) |-> all[order[i]]]
        randomTerms == slice(shuffled, Num(0), parseInt(CountArg(count)))
    IN  [res |-> [status |-> 200, body |-> randomTerms],
         allTerms |-> all]

CountParams == {undefined, "abc"} \cup {ToString(i) : i \in -1..MaxCount}

GetRandom ==
    /\ listening
    /\ req = NoRequest
    /\ \E count \in CountParams, order \in SortOutcomes(Len(allTerms)) :
          LET out == RandomHandler(allTerms, count, order)
          IN  /\ req' = [NoRequest EXCEPT !.route = "/api/random",
                                          !.query.count = count]
              /\ res' = out.res
              /\ allTerms' = out.allTerms
    /\ filteredTerms' = <<>>
    /\ UNCHANGED <<programmingTermsDatabase, listening>>

(***************************************************************************)
(* app.use('*', ...): the catch-all that answers a request no route        *)
(* matched                                                                 *)
(***************************************************************************)
\* String.prototype.startsWith
startsWith(s, p) == Len(s) >= Len(p) /\ SubSeq(s, 1, Len(p)) = p

\* the part of the request path that a layer mounted at '*' matches: all
\* of it
StarMatch(path) == path

\* the router calls a handler mounted with app.use with the matched part
\* removed from req.url, and with a leading slash put back if none is left
TrimPrefix(url, layerPath) ==
    LET rest == SubSeq(url, Len(layerPath) + 1, Len(url))
    IN  IF startsWith(rest, "/") THEN rest ELSE "/" \o rest

\* the handler, called with req.url as the router set it
NotFoundHandler(url) ==
    IF startsWith(url, "/api/")
    THEN [status |-> 404, body |-> [error |-> "API endpoint not found"]]
    ELSE [status |-> 404, body |-> [file |-> "public/index.html"]]

\* request paths that match no route and no static file
UnmatchedPaths ==
    {"/api/nosuch", "/api/term", "/api/terms/js_1/related", "/api/stats/x",
     "/about", "/terms"}

\* req.params['0'] is the path the '*' matched
NotFound ==
    /\ listening
    /\ req = NoRequest
    /\ \E path \in UnmatchedPaths :
          /\ req' = [route |-> "*", query |-> NoRequest.query,
                     params |-> [n \in {"0"} |-> path]]
          /\ res' = NotFoundHandler(TrimPrefix(path, StarMatch(path)))
    /\ filteredTerms' = <<>>
    /\ UNCHANGED <<programmingTermsDatabase, allTerms, listening>>

(***************************************************************************)
(* The response is sent: the request and response objects are released.    *)
(***************************************************************************)
EndRequest ==
    /\ req # NoRequest
    /\ req' = NoRequest
    /\ res' = NoResponse
    /\ filteredTerms' = <<>>
    /\ UNCHANGED <<programmingTermsDatabase, allTerms, listening>>

Next ==
    \/ GetTerms
    \/ GetTerm
    \/ GetCategories
    \/ GetStats
    \/ NotFound
    \/ EndRequest

Spec == Init /\ [][Next]_vars

(***************************************************************************)
(* The server with the random route.  So that every order the sort can     *)
(* produce is enumerated, this specification starts from a smaller sample  *)
(* of the catalog: the two categories that declare the ids ds_1 and ds_2.  *)
(***************************************************************************)
ShuffleLiteral == <<DatabaseLiteral[5], DatabaseLiteral[7]>>

InitShuffle ==
    /\ programmingTermsDatabase = ShuffleLiteral
    /\ allTerms = Flat(ObjectValues(ShuffleLiteral))
    /\ req = NoRequest
    /\ res = NoResponse
    /\ filteredTerms = <<>>
    /\ listening = TRUE

GetTermsSample ==
    ListRequest({undefined, "datastructures", "constructor"},
                {undefined, "beginner"}, {undefined, "HASH"},
                {undefined, "1"}, {undefined, "1"})

NextShuffle ==
    \/ GetTermsSample
    \/ GetTerm
    \/ GetCategories
    \/ GetStats
    \/ GetRandom
    \/ EndRequest

SpecShuffle == InitShuffle /\ [][NextShuffle]_vars

(***************************************************************************)
(* The start of the process.  The module is evaluated from top to bottom:  *)
(* the catalog literal, allTerms, the registration of the routes, and      *)
(* app.listen at the end; no statement between them inspects the terms.    *)
(* The static definition is an input here: the literal as it is, or the    *)
(* literal with a property of one term left out.                           *)
(***************************************************************************)
\* the term without the property f
WithoutField(term, f) == [g \in DOMAIN term \ {f} |-> term[g]]

\* the definition with property f left out of term j of category i
DefinitionWithout(db, i, j, f) ==
    [db EXCEPT ![i].value[j] = WithoutField(@, f)]

\* stack without its tags; queue without its example
StaticDefinitions ==
    {ShuffleLiteral,
     DefinitionWithout(ShuffleLiteral, 2, 4, "tags"),
     DefinitionWithout(ShuffleLiteral, 2, 5, "example")}

\* node has not evaluated the module yet
InitStartup ==
    /\ programmingTermsDatabase = <<>>
    /\ allTerms = <<>>
    /\ req = NoRequest
    /\ res = NoResponse
    /\ filteredTerms = <<>>
    /\ listening = FALSE

\* const programmingTermsDatabase = {...}; const allTerms = ...flat()
Load ==
    /\ ~listening
    /\ programmingTermsDatabase = <<>>
    /\ \E definition \in StaticDefinitions :
          /\ programmingTermsDatabase' = definition
          /\ allTerms' = Flat(ObjectValues(definition))
    /\ UNCHANGED <<req, res, filteredTerms, listening>>

\* app.listen(PORT, ...)
Listen ==
    /\ ~listening
    /\ programmingTermsDatabase # <<>>
    /\ listening' = TRUE
    /\ UNCHANGED <<programmingTermsDatabase, allTerms, req, res,
                   filteredTerms>>

NextStartup ==
    \/ Load
    \/ Listen
    \/ GetTermsSample
    \/ GetTerm
    \/ GetCategories
    \/ GetStats
    \/ EndRequest

SpecStartup == InitStartup /\ [][NextStartup]_vars

(***************************************************************************)
(* Vocabulary of the properties                                            *)
(***************************************************************************)
IsListRequest == req.route = "/api/terms"
IsDetailRequest == req.route = "/api/terms/:id"

\* the request names a category of the catalog
NamesCategory ==
    \E i \in 1..Len(programmingTermsDatabase) :
        programmingTermsDatabase[i].key = req.query.category

\* the terms of the category the request names
TermsOfCategory ==
    LET i == CHOOSE k \in 1..Len(programmingTermsDatabase) :
                 programmingTermsDatabase[k].key = req.query.category
    IN  programmingTermsDatabase[i].value

\* the request carries no category filter
NoCategoryFilter == req.query.category \in {undefined, "", "all"}

\* the request carries no difficulty filter
NoDifficultyFilter == req.query.difficulty \in {undefined, "", "all"}

\* the working set of the request as the specification defines it
WorkingSet ==
    IF NoCategoryFilter THEN allTerms
    ELSE IF NamesCategory THEN TermsOfCategory
    ELSE <<>>

\* the term passes the difficulty filter of the request
PassesDifficulty(t) ==
    NoDifficultyFilter \/ t.difficulty = req.query.difficulty

\* the term passes a search for text s
PassesSearch(t, s) ==
    \/ s \in {undefined, ""}
    \/ includes(toLowerCase(t.name), toLowerCase(s))
    \/ includes(t.chinese, s)
    \/ includes(toLowerCase(t.description), toLowerCase(s))
    \/ \E k \in 1..Len(t.tags) :
           includes(toLowerCase(t.tags[k]), toLowerCase(s))

\* the positions of the working set that pass every given filter
PassingPositions ==
    {i \in 1..Len(WorkingSet) :
        /\ PassesDifficulty(WorkingSet[i])
        /\ PassesSearch(WorkingSet[i], req.query.search)}

Range(seq) == {seq[i] : i \in 1..Len(seq)}

\* p can be obtained from w by deleting elements
RECURSIVE IsSubsequence(_, _)
IsSubsequence(p, w) ==
    IF p = <<>> THEN TRUE
    ELSE IF w = <<>> THEN FALSE
    ELSE IF Head(p) = Head(w) THEN IsSubsequence(Tail(p), Tail(w))
    ELSE IsSubsequence(p, Tail(w))

\* s without its leading and trailing spaces
RECURSIVE Trim(_)
Trim(s) ==
    IF Len(s) > 0 /\ SubSeq(s, 1, 1) = " " THEN Trim(SubSeq(s, 2, Len(s)))
    ELSE IF Len(s) > 0 /\ SubSeq(s, Len(s), Len(s)) = " "
    THEN Trim(SubSeq(s, 1, Len(s) - 1))
    ELSE s

(***************************************************************************)
(* Properties of GET /api/terms                                            *)
(***************************************************************************)
\* C1: the filtered set before pagination is exactly the terms of the
\* working set (allTerms without a category, else the category's terms)
\* that have the given difficulty and match the search text in the name,
\* the Chinese label (raw), the description or a tag; when no list is
\* produced, no term passes the filters.
C1_FilteredSetIsExact ==
    IsListRequest =>
        IF res.status = 200
        THEN /\ Range(filteredTerms) = {WorkingSet[i] : i \in PassingPositions}
             /\ Len(filteredTerms) = Cardinality(PassingPositions)
        ELSE PassingPositions = {}

C1_Witness ==
    /\ IsListRequest /\ res.status = 200
    /\ NamesCategory
    /\ ~NoDifficultyFilter
    /\ Truthy(req.query.search)
    /\ filteredTerms # <<>>
    /\ Len(filteredTerms) < Len(TermsOfCategory)

C3_PagePreservesOrder ==
    (IsListRequest /\ res.status = 200) =>
        IsSubsequence(res.body.terms, WorkingSet)

C3_Witness ==
    /\ IsListRequest /\ res.status = 200
    /\ Len(res.body.terms) >= 2
    /\ Len(res.body.terms) < Len(WorkingSet)
    /\ \E i, j \in 1..Len(WorkingSet) :
           /\ j > i + 1
           /\ WorkingSet[i] = res.body.terms[1]
           /\ WorkingSet[j] = res.body.terms[2]

\* C4 (as stated): for every integer limit and offset, negative ones
\* included, terms.length = min(limit, max(0, total - offset)) and
\* hasMore = (offset + limit < total).
C4_PageLengthFormula ==
    LET limit == parseInt(LimitArg(req.query.limit))
        offset == parseInt(OffsetArg(req.query.offset))
    IN  (IsListRequest /\ res.status = 200 /\ ~limit.nan /\ ~offset.nan) =>
            /\ Len(res.body.terms) =
                   Min(limit.val, Max(0, res.body.total - offset.val))
            /\ res.body.hasMore =
                   (offset.val + limit.val < res.body.total)

\* C5: total is the number of terms that pass the filters before
\* pagination; it does not depend on limit, on offset or on the length of
\* the page.
C5_TotalIsFilteredCount ==
    (IsListRequest /\ res.status = 200) =>
        res.body.total = Cardinality(PassingPositions)

C5_Witness ==
    /\ IsListRequest /\ res.status = 200
    /\ Len(res.body.terms) > 0
    /\ Len(res.body.terms) < res.body.total

\* C6 (as stated): a category parameter that is not the id of a catalog
\* category, names of inherited object properties included, gives the
\* response terms = [], total = 0, hasMore = false, never an error.
C6_UnknownCategoryIsEmpty ==
    (IsListRequest /\ ~NoCategoryFilter /\ ~NamesCategory) =>
        /\ res.status = 200
        /\ res.body.terms = <<>>
        /\ res.body.total = 0
        /\ res.body.hasMore = FALSE

\* C7 (as stated): a difficulty parameter that is non-empty, not 'all' and
\* not one of the three recognized values gives terms = [] and total = 0,
\* whatever the other parameters are.
C7_UnknownDifficultyIsEmpty ==
    (/\ IsListRequest
     /\ ~NoDifficultyFilter
     /\ req.query.difficulty \notin {"beginner", "intermediate", "advanced"})
    =>  /\ res.status = 200
        /\ res.body.terms = <<>>
        /\ res.body.total = 0

\* C8 (as stated): a query whose search text has leading or trailing white
\* space returns the same terms and total as the query with the trimmed
\* text.
C8_Original ==
    (IsListRequest /\ Truthy(req.query.search)) =>
        LET trimmed == TermsHandler(programmingTermsDatabase, allTerms,
                           [req.query EXCEPT !.search = Trim(@)])
        IN  res = trimmed.res

\* C8 (amended): the search text is matched as given, white space
\* included: a query whose search text has leading or trailing white space
\* returns exactly the terms of the working set with the given difficulty
\* that contain the untrimmed text.
C8_SearchIsNotTrimmed ==
    (/\ IsListRequest /\ res.status = 200
     /\ Truthy(req.query.search)
     /\ Trim(req.query.search) # req.query.search)
    =>  \A i \in 1..Len(WorkingSet) :
            (WorkingSet[i] \in Range(filteredTerms)) <=>
                /\ PassesDifficulty(WorkingSet[i])
                /\ \/ includes(toLowerCase(WorkingSet[i].name),
                               toLowerCase(req.query.search))
                   \/ includes(WorkingSet[i].chinese, req.query.search)
                   \/ includes(toLowerCase(WorkingSet[i].description),
                               toLowerCase(req.query.search))
                   \/ \E k \in 1..Len(WorkingSet[i].tags) :
                          includes(toLowerCase(WorkingSet[i].tags[k]),
                                   toLowerCase(req.query.search))

\* a padded search text finds nothing where the trimmed text finds terms
C8_Witness ==
    /\ IsListRequest /\ res.status = 200
    /\ Truthy(req.query.search)
    /\ Trim(req.query.search) # req.query.search
    /\ res.body.total = 0
    /\ \E i \in 1..Len(WorkingSet) :
           /\ PassesDifficulty(WorkingSet[i])
           /\ PassesSearch(WorkingSet[i], Trim(req.query.search))

(***************************************************************************)
(* Properties of GET /api/terms/:id                                        *)
(***************************************************************************)
\* the catalog term that the detail response describes
SourceTerm ==
    CHOOSE t \in Range(allTerms) :
        /\ t.id = res.body.id
        /\ t.name = res.body.name
        /\ t.tags = res.body.tags

SharesTag(t, u) == Range(t.tags) \cap Range(u.tags) # {}

NameContainsHint(t, u) ==
    \E k \in 1..Len(u.relatedTerms) : includes(t.name, u.relatedTerms[k])

\* C9: for an id of the catalog, relatedTerms has at most 5 entries, none
\* of them is the source term, and every entry is the projection of a term
\* that shares a tag with the source term or whose name contains one of
\* the source term's hints.
C9_RelatedTermsBounds ==
    (IsDetailRequest /\ res.status = 200) =>
        /\ Len(res.body.relatedTerms) <= 5
        /\ \A k \in 1..Len(res.body.relatedTerms) :
               LET e == res.body.relatedTerms[k]
               IN  /\ e.id # req.params.id
                   /\ e # Projection(SourceTerm)
                   /\ \E t \in Range(allTerms) :
                          /\ Projection(t) = e
                          /\ t # SourceTerm
                          /\ \/ SharesTag(t, SourceTerm)
                             \/ NameContainsHint(t, SourceTerm)

\* five entries are returned although more than five terms are related
C9_Witness ==
    /\ IsDetailRequest /\ res.status = 200
    /\ Len(res.body.relatedTerms) = 5
    /\ Cardinality({t \in Range(allTerms) :
           /\ t.id # SourceTerm.id
           /\ SharesTag(t, SourceTerm) \/ NameContainsHint(t, SourceTerm)})
       > 5

\* C10: the detail response is 404 {error: 'Term not found'} exactly when
\* no term of allTerms has the requested id, compared exactly; otherwise it
\* is 200 with the fields of a term that has the id; the not-found
\* response carries no related terms.
C10_NotFoundIffNoExactId ==
    IsDetailRequest =>
        LET known == \E i \in 1..Len(allTerms) :
                         allTerms[i].id = req.params.id
        IN  /\ res.status \in {200, 404}
            /\ (res.status = 404) <=> ~known
            /\ res.status = 404 =>
                   /\ res.body = [error |-> "Term not found"]
                   /\ "relatedTerms" \notin DOMAIN res.body
            /\ res.status = 200 =>
                   \E i \in 1..Len(allTerms) :
                       /\ allTerms[i].id = req.params.id
                       /\ res.body =
                              [allTerms[i] EXCEPT !.relatedTerms =
                                  res.body.relatedTerms]

\* an id that differs from a catalog id only in letter case is not found
C10_Witness ==
    /\ IsDetailRequest
    /\ res.status = 404
    /\ \E i \in 1..Len(allTerms) :
           /\ allTerms[i].id # req.params.id
           /\ toLowerCase(allTerms[i].id) = toLowerCase(req.params.id)

(***************************************************************************)
(* Properties of the catalog                                               *)
(***************************************************************************)
\* C11 (as stated): every term id is unique across all categories: no two
\* entries of allTerms have the same id.
C11_UniqueIds ==
    \A i, j \in 1..Len(allTerms) :
        allTerms[i].id = allTerms[j].id => i = j

(***************************************************************************)
(* Properties of GET /api/random                                           *)
(***************************************************************************)
IsRandomRequest == req.route = "/api/random"

\* the count the request asks for, as a number
RequestedCount == parseInt(CountArg(req.query.count))

\* C12: the random response holds min(count, totalTerms) terms for every
\* count > 0 and no term for count = 0, whatever order the sort produced.
C12_RandomLength ==
    (IsRandomRequest /\ ~RequestedCount.nan /\ RequestedCount.val >= 0) =>
        /\ res.status = 200
        /\ Len(res.body) = Min(RequestedCount.val, Len(allTerms))

\* more terms are asked for than the catalog holds, and the order changed
C12_Witness ==
    /\ IsRandomRequest
    /\ ~RequestedCount.nan
    /\ RequestedCount.val > Len(allTerms)
    /\ Len(res.body) = Len(allTerms)
    /\ res.body # allTerms

\* C13 (as stated): the random response is empty for every count <= 0,
\* negative counts included.
C13_NonPositiveCountIsEmpty ==
    (IsRandomRequest /\ ~RequestedCount.nan /\ RequestedCount.val <= 0) =>
        res.body = <<>>

\* C14 (as stated): no random response holds two terms with the same id.
C14_NoDuplicateIds ==
    IsRandomRequest =>
        \A i, j \in 1..Len(res.body) :
            res.body[i].id = res.body[j].id => i = j

IsCategoriesRequest == req.route = "/api/categories"
IsStatsRequest == req.route = "/api/stats"

\* the catalog as the start of the process builds it
StartupDatabase == ShuffleLiteral
StartupAllTerms == Flat(ObjectValues(ShuffleLiteral))

\* C16: after any sequence of list, detail, categories, stats and random
\* requests the catalog is as at startup: every category holds the same
\* terms in the same order with the same fields, and so does allTerms.
C16_CatalogUnchanged ==
    /\ programmingTermsDatabase = StartupDatabase
    /\ allTerms = StartupAllTerms

\* a random response in a changed order, with the catalog as at startup
C16_Witness ==
    /\ IsRandomRequest
    /\ Len(res.body) = Len(allTerms)
    /\ res.body # StartupAllTerms
    /\ allTerms = StartupAllTerms

\* C17: list, detail, categories and stats are functions of the startup
\* catalog and of the request's parameters: in every run, each response is
\* the response the request gets when it is the first request (for stats,
\* but for the time stamp).
C17_ResponsesArePure ==
    /\ IsListRequest =>
           res = TermsHandler(StartupDatabase, StartupAllTerms,
                              req.query).res
    /\ IsDetailRequest => res = TermHandler(StartupAllTerms, req.params.id)
    /\ IsCategoriesRequest => res = CategoriesHandler(StartupDatabase)
    /\ IsStatsRequest =>
           [res.body EXCEPT !.lastUpdated = ""] =
               StatsHandler(StartupDatabase, StartupAllTerms, "").body

\* a stats response taken at another clock reading than the first one
C17_Witness ==
    /\ IsStatsRequest
    /\ res.body # StatsHandler(StartupDatabase, StartupAllTerms,
                               "2026-01-01T00:00:00.000Z").body

(***************************************************************************)
(* Properties of GET /api/stats                                            *)
(***************************************************************************)
RECURSIVE SumValues(_)
SumValues(pairs) ==
    IF pairs = <<>> THEN 0 ELSE Head(pairs).value + SumValues(Tail(pairs))

\* C18: stats reports totalTerms = length of allTerms, categories = number
\* of categories, and byCategory with one key per category, in key order,
\* whose value is the length of that category's own array; the values sum
\* to totalTerms.
C18_StatsCounts ==
    IsStatsRequest =>
        /\ res.body.totalTerms = Len(allTerms)
        /\ res.body.categories = Len(programmingTermsDatabase)
        /\ Len(res.body.byCategory) = Len(programmingTermsDatabase)
        /\ \A i \in 1..Len(programmingTermsDatabase) :
               /\ res.body.byCategory[i].key =
                      programmingTermsDatabase[i].key
               /\ res.body.byCategory[i].value =
                      Len(programmingTermsDatabase[i].value)
        /\ SumValues(res.body.byCategory) = res.body.totalTerms

\* a stats response for a catalog in which two terms share an id
C18_Witness ==
    /\ IsStatsRequest
    /\ Len(res.body.byCategory) > 1
    /\ res.body.totalTerms >
           Cardinality({allTerms[i].id : i \in 1..Len(allTerms)})

RecognizedDifficulties == {"beginner", "intermediate", "advanced"}

\* C19: the three byDifficulty buckets count each term at most once (each
\* bucket is the number of positions of allTerms with that difficulty),
\* their sum is at most totalTerms, and it is totalTerms exactly when every
\* term has a recognized difficulty.
C19_DifficultyBuckets ==
    IsStatsRequest =>
        LET b == res.body.byDifficulty
            sum == b.beginner + b.intermediate + b.advanced
        IN  /\ \A d \in RecognizedDifficulties :
                   b[d] = Cardinality({i \in 1..Len(allTerms) :
                                          allTerms[i].difficulty = d})
            /\ sum <= res.body.totalTerms
            /\ (sum = res.body.totalTerms) <=>
                   \A i \in 1..Len(allTerms) :
                       allTerms[i].difficulty \in RecognizedDifficulties

\* every bucket is used
C19_Witness ==
    /\ IsStatsRequest
    /\ res.body.byDifficulty.beginner > 0
    /\ res.body.byDifficulty.intermediate > 0
    /\ res.body.byDifficulty.advanced > 0

(***************************************************************************)
(* Malformed numeric parameters of GET /api/terms                          *)
(***************************************************************************)
\* C20 (as stated): a limit or an offset that does not parse as a number
\* is replaced by the nominal value: the response is the one of the same
\* query with limit 50, respectively offset 0.
C20_ParseFailureUsesDefaults ==
    LET limitFails == parseInt(LimitArg(req.query.limit)).nan
        offsetFails == parseInt(OffsetArg(req.query.offset)).nan
        nominal == [req.query EXCEPT
                       !.limit = IF limitFails THEN "50" ELSE @,
                       !.offset = IF offsetFails THEN "0" ELSE @]
    IN  (IsListRequest /\ (limitFails \/ offsetFails)) =>
            res = TermsHandler(programmingTermsDatabase, allTerms,
                               nominal).res

(***************************************************************************)
(* Properties of the start of the process                                  *)
(***************************************************************************)
\* the properties of a term record
RequiredFields ==
    {"id", "name", "chinese", "description", "difficulty", "tags",
     "example", "useCases", "relatedTerms"}

\* every term of the definition declares every property
StructurallyValid(db) ==
    \A i \in 1..Len(db) : \A j \in 1..Len(db[i].value) :
        RequiredFields \subseteq DOMAIN db[i].value[j]

IsUnmatchedApiRequest ==
    /\ req.route = "*"
    /\ startsWith(req.params["0"], "/api/")

\* C22 (as stated): every request whose path starts with /api/ and matches
\* none of the five routes is answered with status 404 and the JSON body
\* {error: 'API endpoint not found'}, not with the HTML index page.
C22_UnmatchedApiIsJson404 ==
    IsUnmatchedApiRequest =>
        res = [status |-> 404, body |-> [error |-> "API endpoint not found"]]

(***************************************************************************)
(* Properties of GET /api/categories                                       *)
(***************************************************************************)
\* C23: the categories response has exactly one entry per category of the
\* catalog, in declaration order; the entry's count is the length of the
\* category's term sequence and its displayName is the table's value for
\* the id, or the id itself when the table has no entry for it.
C23_CategoriesListing ==
    IsCategoriesRequest =>
        /\ res.status = 200
        /\ Len(res.body) = Len(programmingTermsDatabase)
        /\ \A i \in 1..Len(programmingTermsDatabase) :
               LET c == programmingTermsDatabase[i]
                   e == res.body[i]
               IN  /\ e.id = c.key
                   /\ e.count = Len(c.value)
                   /\ e.displayName =
                          IF c.key \in DOMAIN displayNames
                          THEN displayNames[c.key]
                          ELSE c.key

\* a listing of several categories with different counts and a display
\* name that is not the id
C23_Witness ==
    /\ IsCategoriesRequest
    /\ Len(res.body) > 2
    /\ res.body[1].count # res.body[2].count
    /\ res.body[1].displayName # res.body[1].id
    /\ res.body[Len(res.body)].id = "datastructures"

(***************************************************************************)
(* Properties of the related terms                                         *)
(***************************************************************************)
\* the position of the source term in allTerms
SourcePosition == CHOOSE j \in 1..Len(allTerms) : allTerms[j] = SourceTerm

\* the term at position j is a candidate related to the source term
RelatedAt(j) ==
    /\ j # SourcePosition
    /\ \/ SharesTag(allTerms[j], SourceTerm)
       \/ NameContainsHint(allTerms[j], SourceTerm)

\* C24: relatedTerms are exactly the first min(5, k) related candidates in
\* the order of allTerms, k being the number of related candidates: the
\* n-th entry is the projection of the n-th related candidate, whether it
\* is related by a tag or by its name.
C24_FirstFiveInCatalogOrder ==
    (IsDetailRequest /\ res.status = 200) =>
        LET k == Cardinality({j \in 1..Len(allTerms) : RelatedAt(j)})
            Nth(n) == CHOOSE j \in 1..Len(allTerms) :
                          /\ RelatedAt(j)
                          /\ Cardinality({m \in 1..j : RelatedAt(m)}) = n
        IN  /\ Len(res.body.relatedTerms) = Min(5, k)
            /\ \A n \in 1..Len(res.body.relatedTerms) :
                   res.body.relatedTerms[n] = Projection(allTerms[Nth(n)])

\* a candidate related by its name only is returned ahead of a candidate
\* that shares a tag
C24_Witness ==
    /\ IsDetailRequest /\ res.status = 200
    /\ \E j, m \in 1..Len(allTerms) :
           /\ j < m
           /\ RelatedAt(j) /\ ~SharesTag(allTerms[j], SourceTerm)
           /\ RelatedAt(m) /\ SharesTag(allTerms[m], SourceTerm)
           /\ \E n \in 1..(Len(res.body.relatedTerms) - 1) :
                  /\ res.body.relatedTerms[n] = Projection(allTerms[j])
                  /\ res.body.relatedTerms[n + 1] = Projection(allTerms[m])

(***************************************************************************)
(* Properties of allTerms                                                  *)
(***************************************************************************)
\* the number of terms of the categories declared before category i
RECURSIVE BlockStart(_)
BlockStart(i) ==
    IF i = 1 THEN 0
    ELSE BlockStart(i - 1) + Len(programmingTermsDatabase[i - 1].value)

\* C25: allTerms is the concatenation of the categories' term sequences in
\* declaration order: its length is the sum of the category lengths, and
\* the terms of category i, in the category's order, are the contiguous
\* block that starts after the terms of the categories declared before it.
C25_AllTermsIsConcatenation ==
    /\ Len(allTerms) = BlockStart(Len(programmingTermsDatabase) + 1)
    /\ \A i \in 1..Len(programmingTermsDatabase) :
           SubSeq(allTerms, BlockStart(i) + 1,
                  BlockStart(i) + Len(programmingTermsDatabase[i].value))
               = programmingTermsDatabase[i].value

\* a later category is listed, and its terms are a block inside allTerms
C25_Witness ==
    /\ IsListRequest /\ res.status = 200
    /\ NoDifficultyFilter /\ ~Truthy(req.query.search)
    /\ \E i \in 2..Len(programmingTermsDatabase) :
           /\ programmingTermsDatabase[i].key = req.query.category
           /\ Len(filteredTerms) > 1
           /\ BlockStart(i) > 0
           /\ filteredTerms =
                  SubSeq(allTerms, BlockStart(i) + 1,
                         BlockStart(i) + Len(filteredTerms))

(***************************************************************************)
(* Relations between list queries                                          *)
(***************************************************************************)
\* the page sizes tried on every filtered sequence
MaxPageSize == 3

\* the pages of the filtered sequence at offsets offset, offset + size, ...
\* for the limit parameter that parses to size, joined in that order
RECURSIVE ConcatPages(_, _, _)
ConcatPages(limit, size, offset) ==
    IF offset >= Len(filteredTerms) THEN <<>>
    ELSE Paginate(programmingTermsDatabase, filteredTerms, limit,
                  ToString(offset)).terms
             \o ConcatPages(limit, size, offset + size)

\* C26: for every filter combination and every limit L >= 1, the pages at
\* offsets 0, L, 2L, ... joined in that order are the whole filtered
\* sequence; hasMore is true on every page before the last non-empty one
\* and false on the last one; an offset >= total gives an empty page with
\* hasMore false; and the response of a request at offset k * L is that
\* page.
C26_PagesPartitionTheResult ==
    (IsListRequest /\ res.status = 200) =>
        \A limit \in {req.query.limit}
                        \cup {ToString(n) : n \in 1..MaxPageSize} :
            LET L == parseInt(LimitArg(limit))
                o == parseInt(OffsetArg(req.query.offset))
                total == Len(filteredTerms)
                Page(offset) ==
                    Paginate(programmingTermsDatabase, filteredTerms, limit,
                             ToString(offset))
            IN  (~L.nan /\ L.val >= 1) =>
                    /\ ConcatPages(limit, L.val, 0) = filteredTerms
                    /\ \A k \in 0..total :
                           k * L.val < total =>
                               /\ Page(k * L.val).terms # <<>>
                               /\ Page(k * L.val).hasMore =
                                      ((k + 1) * L.val < total)
                    /\ \A offset \in total..(total + L.val) :
                           /\ Page(offset).terms = <<>>
                           /\ Page(offset).hasMore = FALSE
                    /\ (/\ limit = req.query.limit
                        /\ ~o.nan /\ o.val >= 0 /\ o.val % L.val = 0)
                       => res.body = Page(o.val)

\* a page in the middle: terms before it, and terms after it
C26_Witness ==
    LET L == parseInt(LimitArg(req.query.limit))
        o == parseInt(OffsetArg(req.query.offset))
    IN  /\ IsListRequest /\ res.status = 200
        /\ ~L.nan /\ L.val >= 1
        /\ ~o.nan /\ o.val >= L.val /\ o.val % L.val = 0
        /\ Len(res.body.terms) = L.val
        /\ res.body.hasMore
        /\ res.body.terms[1] = filteredTerms[o.val + 1]

\* C27: for an existing category, the filtered sequence of a query is the
\* filtered sequence of the same query without the category, restricted
\* to the entries of the category, in the same order.
C27_CategoryReplaceIsIntersect ==
    (IsListRequest /\ NamesCategory) =>
        LET without == TermsHandler(programmingTermsDatabase, allTerms,
                           [req.query EXCEPT !.category = undefined])
            InCategory(t) == t \in Range(TermsOfCategory)
        IN  /\ res.status = 200
            /\ without.res.status = 200
            /\ filteredTerms = SelectSeq(without.filteredTerms, InCategory)

\* the other filters keep terms of the category and terms outside it
C27_Witness ==
    /\ IsListRequest /\ NamesCategory /\ res.status = 200
    /\ ~NoDifficultyFilter
    /\ Truthy(req.query.search)
    /\ filteredTerms # <<>>
    /\ Len(filteredTerms) <
           Len(TermsHandler(programmingTermsDatabase, allTerms,
                   [req.query EXCEPT !.category = undefined]).filteredTerms)

\* C28 (as stated): every term that a list query returns can be fetched
\* by its own id: the detail response for the term's id is 200 and has the
\* term's name, Chinese label, description, difficulty, tags, example and
\* useCases.
C28_ListedTermIsFetchable ==
    (IsListRequest /\ res.status = 200) =>
        \A n \in 1..Len(res.body.terms) :
            LET T == res.body.terms[n]
                detail == TermHandler(allTerms, T.id)
            IN  /\ detail.status = 200
                /\ detail.body.name = T.name
                /\ detail.body.chinese = T.chinese
                /\ detail.body.description = T.description
                /\ detail.body.difficulty = T.difficulty
                /\ detail.body.tags = T.tags
                /\ detail.body.example = T.example
                /\ detail.body.useCases = T.useCases

(***************************************************************************)
(* Relations between the counting routes                                   *)
(***************************************************************************)
\* the total of the list query with the given parameters only
ListTotal(query) ==
    TermsHandler(programmingTermsDatabase, allTerms, query).res.body.total

\* C29: the three counting routes agree: for every category, the total of
\* the list query with only that category, the count of the categories
\* response and stats.byCategory are equal; for each of the three
\* difficulties, the total of the list query with only that difficulty is
\* stats.byDifficulty; the total of the unfiltered list query is
\* stats.totalTerms.
C29_CountsAgree ==
    IsStatsRequest =>
        LET listed == CategoriesHandler(programmingTermsDatabase).body
        IN  /\ Len(listed) = Len(res.body.byCategory)
            /\ \A i \in 1..Len(listed) :
                   /\ listed[i].id = res.body.byCategory[i].key
                   /\ listed[i].count = res.body.byCategory[i].value
                   /\ ListTotal([NoRequest.query EXCEPT
                                    !.category = listed[i].id])
                          = res.body.byCategory[i].value
            /\ \A d \in RecognizedDifficulties :
                   ListTotal([NoRequest.query EXCEPT !.difficulty = d])
                       = res.body.byDifficulty[d]
            /\ ListTotal(NoRequest.query) = res.body.totalTerms

\* a stats response in which the categories and the difficulties have
\* different counts
C29_Witness ==
    /\ IsStatsRequest
    /\ \E i, j \in 1..Len(res.body.byCategory) :
           /\ res.body.byCategory[i].value > res.body.byCategory[j].value
           /\ res.body.byCategory[j].value > 0
    /\ res.body.byDifficulty.intermediate > res.body.byDifficulty.advanced
    /\ res.body.totalTerms = ListTotal(NoRequest.query)

(***************************************************************************)
(* Search narrowing                                                        *)
(***************************************************************************)
\* the non-empty contiguous parts of s
Substrings(s) ==
    {SubSeq(s, i, j) : i \in 1..Len(s), j \in 1..Len(s)} \ {""}

\* the filtered sequence of the request with search text s instead
FilteredWith(s) ==
    TermsHandler(programmingTermsDatabase, allTerms,
                 [req.query EXCEPT !.search = s]).filteredTerms

\* C30: for the same category and difficulty, every term matched by a
\* search text is matched by each of its non-empty substrings: extending
\* the text adds no term to the filtered sequence and does not raise
\* total.
C30_SearchNarrowingIsMonotone ==
    (/\ IsListRequest /\ res.status = 200
     /\ Truthy(req.query.search)
     /\ req.query.limit = undefined /\ req.query.offset = undefined)
    =>  \A s1 \in Substrings(req.query.search) :
            /\ Range(filteredTerms) \subseteq Range(FilteredWith(s1))
            /\ IsSubsequence(filteredTerms, FilteredWith(s1))
            /\ res.body.total <= Len(FilteredWith(s1))

\* a text that matches terms, and a part of it that matches more terms
C30_Witness ==
    /\ IsListRequest /\ res.status = 200
    /\ Truthy(req.query.search)
    /\ req.query.limit = undefined /\ req.query.offset = undefined
    /\ res.body.total > 0
    /\ \E s1 \in Substrings(req.query.search) :
           /\ Len(s1) < Len(req.query.search)
           /\ Len(FilteredWith(s1)) > res.body.total

====
